---- MODULE Spec2Model ----
(***************************************************************************)
(* Model of weather-cli: the SQLite-backed store (database.py), the        *)
(* OpenWeather client and its payload validation (api_client.py), the      *)
(* WeatherData dataclass (models.py) and the fetch / forecast / list /     *)
(* show commands (cli.py).                                                 *)
(*                                                                         *)
(* Representation choices                                                  *)
(*   - text that is pattern-matched (city names) is a sequence of one-     *)
(*     character strings, so that SQL LIKE is computed character by        *)
(*     character; text that is only compared for equality is a string.     *)
(*   - datetimes are integer seconds.  sqlite3 stores a datetime as its    *)
(*     ISO text and compares the texts; for datetimes of one format that   *)
(*     order is the order of the instants.                                 *)
(*   - floats are integers (the claims never depend on a fraction).        *)
(*   - Python None / SQL NULL is the string None; an absent id is NoneId.  *)
(***************************************************************************)
EXTENDS Integers, Sequences, FiniteSets, TLC

\* ------------------------------------------------------------------ bounds
MaxTicks == 2
MaxIntervals == 2

\* ------------------------------------------------------- program constants
CACHE_DURATION == 1800
API_TIMEOUT == 10
NoneId == 0 - 1
None == "None"

\* the clock advances by half a freshness window per tick
TickStep == CACHE_DURATION \div 2

VARIABLES
    rows,    \* table weather, in rowid order
    seq,     \* largest rowid handed out so far (sqlite_sequence)
    now,     \* datetime.now()
    ticks,   \* number of clock ticks so far
    call,    \* the last operation and its arguments
    ret,     \* what that operation returned, raised or displayed
    before   \* table weather as it was when that operation started

vars == <<rows, seq, now, ticks, call, ret, before>>

\* ------------------------------------------------------------------ text
Lo == <<"L", "o">>
lo == <<"l", "o">>
Pa == <<"P", "a">>

\* ASCII case folding, as done by SQLite's built-in LIKE
Lower(c) ==
    CASE c = "L" -> "l"
      [] c = "P" -> "p"
      [] c = "O" -> "o"
      [] OTHER -> c

RECURSIVE Like(_, _)
\* text LIKE pattern: % is any run of characters, _ is any one character,
\* every other character matches itself without regard to ASCII case
Like(pattern, text) ==
    IF pattern = <<>> THEN text = <<>>
    ELSE IF Head(pattern) = "%"
         THEN \E k \in 0..Len(text) :
                  Like(Tail(pattern), SubSeq(text, k + 1, Len(text)))
         ELSE /\ text # <<>>
              /\ \/ Head(pattern) = "_"
                 \/ Lower(Head(pattern)) = Lower(Head(text))
              /\ Like(Tail(pattern), Tail(text))

\* None where a city (a character sequence) is expected
NoneCity == <<None>>

\* Python truthiness of an Optional[str] argument (`if country:`, `if city:`)
TruthyText(s) == s # None /\ s # ""
TruthyCity(s) == s # NoneCity /\ s # <<>>

\* ------------------------------------------------------------ WeatherData
WeatherDataFields ==
    {"id", "city", "country", "temperature", "feels_like", "temp_min",
     "temp_max", "pressure", "humidity", "description", "wind_speed",
     "clouds", "timestamp"}

\* the dataclass-generated __init__: every declared field is required and
\* no other keyword is accepted
WeatherDataInitOk(kwargs) ==
    /\ DOMAIN kwargs \subseteq WeatherDataFields
    /\ WeatherDataFields \subseteq DOMAIN kwargs

\* ------------------------------------------------------------------ store
\* position of the row with this (city, country), 0 if there is none;
\* UNIQUE(city, country) compares with the BINARY collation
KeyIndex(rs, city, country) ==
    IF \E i \in 1..Len(rs) : rs[i].city = city /\ rs[i].country = country
    THEN CHOOSE i \in 1..Len(rs) : rs[i].city = city /\ rs[i].country = country
    ELSE 0

\* lastrowid of a connection on which the statement inserted no row
SaveWeatherUpdateId(rs, i) == 0

\* the columns an upsert that hits an existing key overwrites
SaveWeatherUpdateRowMutant(old, w) ==
    [w EXCEPT !.id = old.id, !.timestamp = old.timestamp]
SaveWeatherUpdateRow(old, w) == [w EXCEPT !.id = old.id]

\* INSERT ... ON CONFLICT(city, country) DO UPDATE; returns the new table,
\* the new sqlite_sequence, the returned id and the exception raised.
\* An AUTOINCREMENT rowid is drawn before the conflict is detected, so an
\* upsert that updates still advances sqlite_sequence.
SaveWeather(rs, sq, w) ==
    IF w.city = NoneCity \/ w.country = None \/ w.description = None
    THEN [rows |-> rs, seq |-> sq, id |-> NoneId, exc |-> "IntegrityError"]
    ELSE LET i == KeyIndex(rs, w.city, w.country) IN
         IF i = 0
         THEN [rows |-> Append(rs, [w EXCEPT !.id = sq + 1]),
               seq |-> sq + 1, id |-> sq + 1, exc |-> None]
         ELSE [rows |-> [rs EXCEPT ![i] = SaveWeatherUpdateRow(rs[i], w)],
               seq |-> sq + 1, id |-> SaveWeatherUpdateId(rs, i), exc |-> None]

\* timestamp > cache_cutoff
Fresh(row, t) == row.timestamp > t - CACHE_DURATION

\* the rows the SELECT of get_cached_weather matches
CachedMatches(rs, city, country, t) ==
    {i \in 1..Len(rs) :
        /\ Like(city, rs[i].city)
        /\ TruthyText(country) => rs[i].country = country
        /\ Fresh(rs[i], t)}

\* fetchone() of a SELECT without ORDER BY: any matching row, or None
GetCachedWeather(rs, city, country, t) ==
    IF CachedMatches(rs, city, country, t) = {}
    THEN {[hit |-> FALSE, row |-> None]}
    ELSE {[hit |-> TRUE, row |-> rs[i]] : i \in CachedMatches(rs, city, country, t)}

\* SELECT * FROM weather WHERE id = ?
GetWeatherById(rs, id) ==
    IF \E i \in 1..Len(rs) : rs[i].id = id
    THEN [hit |-> TRUE, row |-> rs[CHOOSE i \in 1..Len(rs) : rs[i].id = id]]
    ELSE [hit |-> FALSE, row |-> None]

\* an Optional[float] argument
NoFloat == [some |-> FALSE, v |-> 0]
SomeFloat(x) == [some |-> TRUE, v |-> x]

\* the WHERE clause list_weather builds from the filters that are supplied
ListMatches(row, city, country, min_temp, max_temp) ==
    /\ TruthyCity(city) => Like(<<"%">> \o city \o <<"%">>, row.city)
    /\ TruthyText(country) => row.country = country
    /\ min_temp.some => row.temperature >= min_temp.v
    /\ max_temp.some => row.temperature <= max_temp.v

\* ORDER BY timestamp DESC: every arrangement of the rows in which the
\* timestamps do not increase (rows with equal timestamps in any order)
OrderByTimestampDesc(rs, S) ==
    {[k \in 1..Cardinality(S) |-> rs[f[k]]] :
        f \in {g \in [1..Cardinality(S) -> S] :
                  /\ \A a, b \in 1..Cardinality(S) : a # b => g[a] # g[b]
                  /\ \A a, b \in 1..Cardinality(S) :
                        a < b => rs[g[a]].timestamp >= rs[g[b]].timestamp}}

\* LIMIT ?: a negative limit is no limit (SQLite)
Limit(s, limit) ==
    IF limit < 0 \/ limit >= Len(s) THEN s ELSE SubSeq(s, 1, limit)

\* the possible results of list_weather
ListWeather(rs, city, country, min_temp, max_temp, limit) ==
    {Limit(s, limit) :
        s \in OrderByTimestampDesc(rs,
                {i \in 1..Len(rs) :
                    ListMatches(rs[i], city, country, min_temp, max_temp)})}

\* ------------------------------------------------------------------- JSON
JNull == [t |-> "null"]
JNum(n) == [t |-> "num", n |-> n]
JStr(s) == [t |-> "str", s |-> s]
JList(l) == [t |-> "list", l |-> l]
JDict(d) == [t |-> "dict", d |-> d]
EmptyDict == JDict(<<>>)

\* results of evaluating a Python expression: a value or a raised exception
Val(v) == [exc |-> None, msg |-> <<>>, v |-> v]
Raise(exc, msg) == [exc |-> exc, msg |-> msg, v |-> JNull]

\* the element of a one-element set; Only({e : x \in {v}}) is e with x
\* standing for the value of v, which is computed once, as an assignment
\* to a local variable computes its right-hand side once
Only(S) == CHOOSE x \in S : TRUE

\* the first exception raised by steps evaluated in order, if any
FirstRaised(steps) ==
    Only({IF \E i \in 1..Len(ss) : ss[i].exc # None
          THEN ss[CHOOSE i \in 1..Len(ss) :
                     /\ ss[i].exc # None
                     /\ \A j \in 1..(i - 1) : ss[j].exc = None]
          ELSE Val(JNull) : ss \in {steps}})

\* `key not in obj`
PyNotIn(key, obj) ==
    CASE obj.t = "dict" -> Val(key \notin DOMAIN obj.d)
      [] obj.t = "list" -> Val(\A i \in 1..Len(obj.l) : obj.l[i] # JStr(key))
      [] obj.t = "str" -> Val(obj.s # key)
      [] OTHER -> Raise("TypeError", <<"argument of type is not iterable">>)

\* obj.get(key, default)
PyGet(obj, key, default) ==
    IF obj.t = "dict"
    THEN Val(IF key \in DOMAIN obj.d THEN obj.d[key] ELSE default)
    ELSE Raise("AttributeError", <<"object has no attribute 'get'">>)

\* obj[0]
PyFirst(obj) ==
    CASE obj.t = "list" ->
            IF obj.l = <<>> THEN Raise("IndexError", <<"list index out of range">>)
            ELSE Val(obj.l[1])
      [] obj.t = "dict" -> Raise("KeyError", <<"0">>)
      [] obj.t = "str" ->
            IF obj.s = "" THEN Raise("IndexError", <<"string index out of range">>)
            ELSE Val(obj)
      [] OTHER -> Raise("TypeError", <<"object is not subscriptable">>)

\* `not obj`
PyFalsy(obj) ==
    \/ obj.t = "null"
    \/ obj.t = "dict" /\ DOMAIN obj.d = {}
    \/ obj.t = "list" /\ obj.l = <<>>
    \/ obj.t = "str" /\ obj.s = ""
    \/ obj.t = "num" /\ obj.n = 0

\* the numeric strings of the payloads, with their values
NumericStrings == {"7"}
StrToNum(s) == IF s = "7" THEN 7 ELSE 0

\* float(x) and int(x)
PyFloat(x) ==
    CASE x.t = "num" -> Val(x.n)
      [] x.t = "str" ->
            IF x.s \in NumericStrings THEN Val(StrToNum(x.s))
            ELSE Raise("ValueError", <<"could not convert string to float">>)
      [] OTHER -> Raise("TypeError", <<"float() argument must be a string or a real number">>)
PyInt(x) ==
    CASE x.t = "num" -> Val(x.n)
      [] x.t = "str" ->
            IF x.s \in NumericStrings THEN Val(StrToNum(x.s))
            ELSE Raise("ValueError", <<"invalid literal for int()">>)
      [] OTHER -> Raise("TypeError", <<"int() argument must be a string or a real number">>)

\* a JSON string or null as the Python value handed to the store
PyCity(x) == IF x.t = "str" THEN x.s ELSE NoneCity
PyText(x) == IF x.t = "str" THEN x.s ELSE None

\* obj[key] for a string key
PyItem(obj, key) ==
    CASE obj.t = "dict" ->
            IF key \in DOMAIN obj.d THEN Val(obj.d[key])
            ELSE Raise("KeyError", <<key>>)
      [] obj.t = "list" -> Raise("TypeError", <<"list indices must be integers">>)
      [] obj.t = "str" -> Raise("TypeError", <<"string indices must be integers">>)
      [] OTHER -> Raise("TypeError", <<"object is not subscriptable">>)

\* an expression applied to the value of a step, unless the step raised
Then(step, next) == IF step.exc # None THEN step ELSE next

\* float(obj.get(key, 0)) and int(obj.get(key, 0))
GetFloat(obj, key) ==
    LET got == PyGet(obj, key, JNum(0)) IN Then(got, PyFloat(got.v))
GetInt(obj, key) ==
    LET got == PyGet(obj, key, JNum(0)) IN Then(got, PyInt(got.v))

\* ------------------------------------------------------------- validation
RequiredFieldsMutant == <<"name", "sys", "main", "weather", "wind">>
RequiredFields == <<"name", "sys", "main", "weather", "wind", "clouds">>
ForecastItemFields == <<"dt", "main", "weather", "wind", "clouds">>

\* for field in required_fields: if field not in data: raise ValueError(...)
RequiredCheck(required, data, text) ==
    IF PyNotIn(required[1], data).exc # None
    THEN PyNotIn(required[1], data)
    ELSE IF \E i \in 1..Len(required) : PyNotIn(required[i], data).v
         THEN Raise("ValueError",
                    <<text, required[CHOOSE i \in 1..Len(required) :
                                /\ PyNotIn(required[i], data).v
                                /\ \A j \in 1..(i - 1) : ~PyNotIn(required[j], data).v]>>)
         ELSE Val(JNull)

\* the exceptions the validators turn into ValueError
ParseCaught == {"KeyError", "ValueError", "TypeError", "IndexError"}

\* the steps shared by the two validators: the nested sections, the check of
\* the condition entry and the leaves, each with what evaluating it gives
SectionSteps(data, text) ==
    LET main == PyGet(data, "main", EmptyDict)
        got == PyGet(data, "weather", JList(<<EmptyDict>>))
        weather == Then(got, PyFirst(got.v))
        wind == PyGet(data, "wind", EmptyDict)
        clouds == PyGet(data, "clouds", EmptyDict)
    IN  [main |-> main, weather |-> weather, wind |-> wind, clouds |-> clouds,
         truthy |-> IF PyFalsy(weather.v)
                    THEN Raise("ValueError", <<text>>)
                    ELSE Val(JNull),
         temperature |-> GetFloat(main.v, "temp"),
         feels_like |-> GetFloat(main.v, "feels_like"),
         temp_min |-> GetFloat(main.v, "temp_min"),
         temp_max |-> GetFloat(main.v, "temp_max"),
         pressure |-> GetInt(main.v, "pressure"),
         humidity |-> GetInt(main.v, "humidity"),
         description |-> PyGet(weather.v, "description", JStr("No description")),
         wind_speed |-> GetFloat(wind.v, "speed"),
         clouds_all |-> GetInt(clouds.v, "all")]

\* the keyword arguments both validators pass to WeatherData
ObservationKwargs(city, country, s, t) ==
    [id |-> NoneId, city |-> city, country |-> country,
     temperature |-> s.temperature.v, feels_like |-> s.feels_like.v,
     temp_min |-> s.temp_min.v, temp_max |-> s.temp_max.v,
     pressure |-> s.pressure.v, humidity |-> s.humidity.v,
     description |-> PyText(s.description.v),
     wind_speed |-> s.wind_speed.v, clouds |-> s.clouds_all.v,
     timestamp |-> t]

\* the leaves in the order the WeatherData(...) call evaluates them
LeafSteps(s) ==
    <<s.temperature, s.feels_like, s.temp_min, s.temp_max, s.pressure,
      s.humidity, s.description, s.wind_speed, s.clouds_all>>

\* _parse_weather_data
ParseWeatherData(data, t) ==
    Only({
        LET sys == PyGet(data, "sys", EmptyDict)
            name == PyItem(data, "name")
            country == PyGet(sys.v, "country", JStr("Unknown"))
            kwargs == ObservationKwargs(PyCity(name.v), PyText(country.v), s, t)
        IN  Only({
            IF raised.exc \in ParseCaught
            THEN [ok |-> FALSE, exc |-> "ValueError",
                  msg |-> <<"Malformed response data: ">> \o raised.msg]
            ELSE IF raised.exc # None
            THEN [ok |-> FALSE, exc |-> raised.exc, msg |-> raised.msg]
            ELSE IF ~WeatherDataInitOk(kwargs)
            THEN [ok |-> FALSE, exc |-> "ValueError",
                  msg |-> <<"Malformed response data: ",
                            "unexpected keyword argument">>]
            ELSE [ok |-> TRUE, exc |-> None, msg |-> <<>>, w |-> kwargs]
            : raised \in {FirstRaised(
                <<RequiredCheck(RequiredFields, data, "Missing required field: "),
                  s.main, s.weather, s.wind, sys, s.clouds, s.truthy,
                  name, country>> \o LeafSteps(s))}})
        : s \in {SectionSteps(data, "No weather description available")}})

\* datetime.fromtimestamp(x)
FromTimestamp(x) ==
    IF x.t = "num" THEN Val(x.n)
    ELSE Raise("TypeError", <<"object cannot be interpreted as an integer">>)

\* `for item in obj`: the items of a list, the keys of a dict, the
\* characters of a string (one stands for all of them)
PyIter(obj) ==
    CASE obj.t = "list" -> Val(obj.l)
      [] obj.t = "dict" ->
            LET n == Cardinality(DOMAIN obj.d)
                order == CHOOSE f \in [1..n -> DOMAIN obj.d] :
                            \A a, b \in 1..n : a # b => f[a] # f[b]
            IN  Val([i \in 1..n |-> JStr(order[i])])
      [] obj.t = "str" -> Val(IF obj.s = "" THEN <<>> ELSE <<obj>>)
      [] OTHER -> Raise("TypeError", <<"object is not iterable">>)

UnknownCity == <<"U", "n", "k", "n", "o", "w", "n">>

\* the body of the loop of _parse_forecast_data for one interval
ParseForecastItem(item, city_name, country, t) ==
    Only({
        LET stamp == PyItem(item, "dt")
            dt == Then(stamp, FromTimestamp(stamp.v))
            kwargs == [forecast_time |-> dt.v]
                          @@ ObservationKwargs(city_name, country, s, t)
        IN  Only({
            IF raised.exc # None THEN [exc |-> raised.exc, msg |-> raised.msg]
            ELSE IF ~WeatherDataInitOk(kwargs)
            THEN [exc |-> "TypeError",
                  msg |-> <<"WeatherData.__init__() got an unexpected keyword argument">>]
            ELSE [exc |-> None, msg |-> <<>>, w |-> kwargs]
            : raised \in {FirstRaised(
                <<RequiredCheck(ForecastItemFields, item,
                                "Missing required field in forecast item: "),
                  s.main, s.weather, s.wind, s.clouds, s.truthy, dt>>
                \o LeafSteps(s))}})
        : s \in {SectionSteps(item, "No weather description in forecast item")}})

\* _parse_forecast_data
ParseForecastData(data, t) ==
    LET noList == PyNotIn("list", data)
        listChk == IF noList.exc = None /\ noList.v
                   THEN Raise("ValueError", <<"Missing 'list' field in forecast response">>)
                   ELSE noList
        noCity == PyNotIn("city", data)
        cityChk == IF noCity.exc = None /\ noCity.v
                   THEN Raise("ValueError", <<"Missing 'city' field in forecast response">>)
                   ELSE noCity
        city_data == PyItem(data, "city")
        city_name == PyGet(city_data.v, "name", JStr(UnknownCity))
        country == PyGet(city_data.v, "country", JStr("Unknown"))
        list == PyItem(data, "list")
        items == Then(list, PyIter(list.v))
        outer == FirstRaised(<<listChk, cityChk, city_data, city_name, country, items>>)
        Escapes(r) == r.exc # None /\ r.exc \notin ParseCaught
        Parsed(r) == r.exc = None
    IN  Only({
        LET good == SelectSeq(results, Parsed)
            forecasts == [i \in 1..Len(good) |-> good[i].w]
        IN
        IF outer.exc \in {"KeyError", "ValueError", "TypeError"}
        THEN [ok |-> FALSE, exc |-> "ValueError", skipped |-> 0,
              msg |-> <<"Malformed forecast response data: ">> \o outer.msg]
        ELSE IF outer.exc # None
        THEN [ok |-> FALSE, exc |-> outer.exc, msg |-> outer.msg, skipped |-> 0]
        ELSE IF \E i \in 1..Len(results) : Escapes(results[i])
        THEN LET i == CHOOSE k \in 1..Len(results) :
                         /\ Escapes(results[k])
                         /\ \A j \in 1..(k - 1) : ~Escapes(results[j])
             IN  [ok |-> FALSE, exc |-> results[i].exc, msg |-> results[i].msg,
                  skipped |-> i - 1 - Len(SelectSeq(SubSeq(results, 1, i - 1), Parsed))]
        ELSE IF forecasts = <<>>
        THEN [ok |-> FALSE, exc |-> "ValueError", skipped |-> Len(results),
              msg |-> <<"Malformed forecast response data: ",
                        "No valid forecast data could be parsed">>]
        ELSE [ok |-> TRUE, exc |-> None, msg |-> <<>>, ws |-> forecasts,
              skipped |-> Len(results) - Len(forecasts)]
        : results \in {IF outer.exc # None THEN <<>>
                       ELSE [i \in 1..Len(items.v) |->
                               ParseForecastItem(items.v[i], PyCity(city_name.v),
                                                 PyText(country.v), t)]}})

\* ----------------------------------------------------------------- client
\* f"{city},{country_code}" if country_code else city
Location(city, country_code) ==
    IF TruthyText(country_code) THEN city \o <<",", country_code>> ELSE city

\* what the upstream does with the one request: the deadline passes, the
\* transport fails, requests gives up for another reason, or a response
\* with a status and a body arrives
Timeouts == [kind |-> "timeout", status |-> 0, json |-> FALSE, data |-> JNull]
ConnectionFails == [kind |-> "connection", status |-> 0, json |-> FALSE, data |-> JNull]
RequestFails == [kind |-> "request", status |-> 0, json |-> FALSE, data |-> JNull]
Response(status, json, data) ==
    [kind |-> "response", status |-> status, json |-> json, data |-> data]

\* Response.raise_for_status() raises HTTPError for 4xx and 5xx only
RaiseForStatus(status) == 400 <= status /\ status < 600

\* requests.get(...), raise_for_status() and the except clauses after them
RequestError(location, outcome) ==
    CASE outcome.kind = "timeout" ->
            Raise("Timeout", <<"Request timed out after ", ToString(API_TIMEOUT),
                               " seconds. ">>)
      [] outcome.kind = "connection" ->
            Raise("ConnectionError", <<"Network connection failed: ">>)
      [] outcome.kind = "request" ->
            Raise("APIError", <<"Request failed: ">>)
      [] OTHER ->
            IF ~RaiseForStatus(outcome.status) THEN Val(JNull)
            ELSE IF outcome.status = 404
            THEN Raise("APIError", <<"City '">> \o location \o <<"' not found.">>)
            ELSE IF outcome.status = 401
            THEN Raise("APIError", <<"Invalid API key. ">>)
            ELSE IF outcome.status = 429
            THEN Raise("APIError", <<"API rate limit exceeded. ">>)
            ELSE Raise("APIError", <<"HTTP error ", ToString(outcome.status), ": ">>)

\* response.json() and the validator, with the except clauses around them;
\* parsed is what the validator gives on the decoded body
DecodeAndParse(outcome, parsed) ==
    IF ~outcome.json
    THEN [ok |-> FALSE, exc |-> "ValueError", decoded |-> TRUE,
          msg |-> <<"Invalid JSON response: ", "Expecting value">>]
    ELSE Only({
         IF r.ok THEN r @@ [decoded |-> TRUE]
         ELSE IF r.exc = "ValueError"
         THEN [ok |-> FALSE, exc |-> "ValueError", decoded |-> TRUE,
               msg |-> <<"Invalid JSON response: ">> \o r.msg]
         ELSE IF r.exc = "KeyError"
         THEN [ok |-> FALSE, exc |-> "ValueError", decoded |-> TRUE,
               msg |-> <<"Missing required field in response: ">> \o r.msg]
         ELSE [ok |-> FALSE, exc |-> r.exc, decoded |-> TRUE, msg |-> r.msg]
         : r \in {parsed}})

\* fetch_current_weather
FetchCurrentWeather(city, country_code, outcome, t) ==
    LET err == RequestError(Location(city, country_code), outcome)
    IN  IF err.exc # None
        THEN [ok |-> FALSE, exc |-> err.exc, msg |-> err.msg, decoded |-> FALSE]
        ELSE DecodeAndParse(outcome, ParseWeatherData(outcome.data, t))

\* min(days * 8, 40)
CntMutant(days) == IF days * 8 < 24 THEN days * 8 ELSE 24
Cnt(days) == IF days * 8 < 40 THEN days * 8 ELSE 40

\* fetch_forecast
FetchForecast(city, country_code, days, outcome, t) ==
    LET err == RequestError(Location(city, country_code), outcome)
    IN  IF err.exc # None
        THEN [ok |-> FALSE, exc |-> err.exc, msg |-> err.msg, decoded |-> FALSE,
              cnt |-> Cnt(days)]
        ELSE DecodeAndParse(outcome, ParseForecastData(outcome.data, t))
                 @@ [cnt |-> Cnt(days)]

\* ----------------------------------------------------------------- inputs
\* bound on the rowids handed out, hence on the writes to the store
MaxSeq == 3

Temperatures == {5, 20}

\* an observation as the validator builds it at time t
Observation(city, country, temp, t) ==
    [id |-> NoneId, city |-> city, country |-> country,
     temperature |-> temp, feels_like |-> temp, temp_min |-> temp,
     temp_max |-> temp, pressure |-> 1013, humidity |-> 60,
     description |-> "rain", wind_speed |-> 3, clouds |-> 40,
     timestamp |-> t]

\* what save_weather is called with: validated observations, among them
\* two whose cities differ in case only and one whose country upstream
\* sent as null
Observations(t) ==
    {Observation(Lo, "GB", 5, t), Observation(Lo, "GB", 20, t),
     Observation(lo, "GB", 5, t), Observation(Pa, "US", 20, t),
     Observation(Lo, None, 5, t)}

\* arguments of get_cached_weather and list_weather
QueryCities == {Lo, lo, <<"%">>}
QueryCountries == {None, "", "GB"}
ListCities == {NoneCity, <<"o">>}
ListCountries == {None, "GB"}
ListTemps == {<<NoFloat, NoFloat>>, <<SomeFloat(10), NoFloat>>, <<NoFloat, SomeFloat(10)>>}
Limits == {0 - 1, 1, 2}
RecordIds == 0..MaxSeq

\* -------------------------------------------------------------- store API
Init ==
    /\ rows = <<>>
    /\ seq = 0
    /\ now = 0
    /\ ticks = 0
    /\ call = [op |-> "init"]
    /\ ret = [op |-> "init"]
    /\ before = <<>>

\* time passes between two operations
Tick ==
    /\ ticks < MaxTicks
    /\ now' = now + TickStep
    /\ ticks' = ticks + 1
    /\ call' = [op |-> "tick"]
    /\ ret' = [op |-> "tick"]
    /\ before' = rows
    /\ UNCHANGED <<rows, seq>>

\* db.save_weather(w)
DbSaveWeather ==
    \E w \in Observations(now) :
        LET r == SaveWeather(rows, seq, w) IN
        /\ seq < MaxSeq
        /\ rows' = r.rows
        /\ seq' = r.seq
        /\ call' = [op |-> "save_weather", w |-> w]
        /\ ret' = [id |-> r.id, exc |-> r.exc]
        /\ before' = rows
        /\ UNCHANGED <<now, ticks>>

\* db.get_cached_weather(city, country); the call records whether it
\* directly follows a successful save_weather, and of which observation
DbGetCachedWeather ==
    \E city \in QueryCities, country \in QueryCountries :
    \E r \in GetCachedWeather(rows, city, country, now) :
        /\ call' = [op |-> "get_cached_weather", city |-> city, country |-> country,
                    afterSave |-> call.op = "save_weather" /\ ret.exc = None,
                    saved |-> IF call.op = "save_weather" THEN call.w
                              ELSE Observation(Lo, None, 5, 0)]
        /\ ret' = r
        /\ before' = rows
        /\ UNCHANGED <<rows, seq, now, ticks>>

\* db.get_weather_by_id(record_id)
DbGetWeatherById ==
    \E id \in RecordIds :
        /\ call' = [op |-> "get_weather_by_id", id |-> id]
        /\ ret' = GetWeatherById(rows, id)
        /\ before' = rows
        /\ UNCHANGED <<rows, seq, now, ticks>>

\* db.list_weather(city, country, min_temp, max_temp, limit)
DbListWeather ==
    \E city \in ListCities, country \in ListCountries, temps \in ListTemps,
       limit \in Limits :
    \E r \in ListWeather(rows, city, country, temps[1], temps[2], limit) :
        /\ call' = [op |-> "list_weather", city |-> city, country |-> country,
                    min_temp |-> temps[1], max_temp |-> temps[2], limit |-> limit]
        /\ ret' = [rows |-> r]
        /\ before' = rows
        /\ UNCHANGED <<rows, seq, now, ticks>>

\* the store used through save_weather and its two lookups
NextDb ==
    \/ Tick
    \/ DbSaveWeather
    \/ DbGetCachedWeather
    \/ DbGetWeatherById

SpecDb == Init /\ [][NextDb]_vars

\* the store used through save_weather and list_weather
NextList ==
    \/ Tick
    \/ DbSaveWeather
    \/ DbListWeather

SpecList == Init /\ [][NextList]_vars

\* --------------------------------------------------------------- payloads
Put(obj, key, v) == JDict((key :> v) @@ obj.d)
Drop(obj, keys) == JDict([k \in DOMAIN obj.d \ keys |-> obj.d[k]])

Conditions(desc) == JList(<<JDict([description |-> desc])>>)
Metrics(temp) ==
    JDict([temp |-> JNum(temp), feels_like |-> JNum(temp), temp_min |-> JNum(temp),
           temp_max |-> JNum(temp), pressure |-> JNum(1013), humidity |-> JNum(60)])

\* a complete current-weather body
Current(name, country, temp) ==
    JDict([name |-> JStr(name), sys |-> JDict([country |-> JStr(country)]),
           main |-> Metrics(temp), weather |-> Conditions(JStr("rain")),
           wind |-> JDict([speed |-> JNum(3)]), clouds |-> JDict([all |-> JNum(40)])])

Base == Current(Lo, "GB", 5)
SectionNames == {"name", "sys", "main", "weather", "wind", "clouds"}

GoodCurrent ==
    {Current(Lo, "GB", 5), Current(Lo, "GB", 20), Current(lo, "GB", 5),
     Current(Pa, "US", 20)}

\* bodies that lack one or two of the six sections
LackingCurrent ==
    {Drop(Base, K) : K \in {X \in SUBSET SectionNames : Cardinality(X) \in {1, 2}}}

\* bodies whose sections are there but odd
OddCurrent ==
    {Put(Base, "main", JNull), Put(Base, "main", JDict([temp |-> JNull])),
     Put(Base, "main", JDict([temp |-> JStr("7")])),
     Put(Base, "main", JDict([temp |-> JStr("warm")])),
     Put(Base, "main", EmptyDict),
     Put(Base, "weather", JList(<<>>)), Put(Base, "weather", JList(<<EmptyDict>>)),
     Put(Base, "weather", EmptyDict), Put(Base, "weather", JNull),
     Put(Base, "weather", Conditions(JStr(""))), Put(Base, "weather", Conditions(JNull)),
     Put(Base, "weather", JList(<<JDict([main |-> JStr("Rain")])>>)),
     Put(Base, "sys", EmptyDict), Put(Base, "sys", JDict([country |-> JNull])),
     Put(Base, "sys", JNull), Put(Base, "name", JNull),
     Put(Base, "wind", JNull), Put(Base, "clouds", JDict([all |-> JStr("7")])),
     JNull, JList(<<>>), EmptyDict}

CurrentPayloads == GoodCurrent \cup LackingCurrent \cup OddCurrent

\* one forecast interval
Interval(temp) ==
    JDict([dt |-> JNum(100), main |-> Metrics(temp),
           weather |-> Conditions(JStr("rain")),
           wind |-> JDict([speed |-> JNum(3)]), clouds |-> JDict([all |-> JNum(40)])])

Intervals ==
    {Interval(5), Interval(20), Drop(Interval(5), {"wind"}),
     Put(Interval(5), "weather", JList(<<>>)), Put(Interval(5), "main", JNull)}

Place == JDict([name |-> JStr(Lo), country |-> JStr("GB")])
Forecast(items) == JDict([list |-> JList(items), city |-> Place])

SeqsUpTo(S, n) == UNION {[1..k -> S] : k \in 0..n}

ForecastPayloads ==
    {Forecast(items) : items \in SeqsUpTo(Intervals, MaxIntervals)}
    \cup {Drop(Forecast(<<Interval(5)>>), {"list"}),
          Drop(Forecast(<<Interval(5)>>), {"city"}),
          Put(Forecast(<<Interval(5)>>), "city", JNull),
          Put(Forecast(<<Interval(5)>>), "list", JNull), JNull}

\* the body upstream sends with an error status
ErrorBody == JDict([cod |-> JStr("404"), message |-> JStr("city not found")])

Statuses == {200, 204, 300, 304, 400, 401, 404, 429, 500, 503}

\* what upstream can do with a request whose 2xx and 3xx bodies are Bodies
Outcomes(Bodies) ==
    {Timeouts, ConnectionFails, RequestFails}
    \cup {Response(st, FALSE, JNull) : st \in Statuses}
    \cup {Response(st, TRUE, ErrorBody) : st \in Statuses}
    \cup {Response(st, TRUE, b) : st \in {200, 300}, b \in Bodies}

ClientCities == {Lo, Pa}
ClientCountries == {None, "", "GB"}
\* fetch_forecast itself accepts any days; 6 is a value the cap cuts
Days == 1..6

\* ------------------------------------------------------------- client API
\* The client keeps no state between calls, so each behaviour is one call:
\* the initial state holds the call and its arguments, the action applies
\* the method.
Pending == [pending |-> TRUE]

ClientCalls ==
    {[op |-> "parse_weather", data |-> data] : data \in CurrentPayloads}
    \cup {[op |-> "parse_forecast", data |-> data] : data \in ForecastPayloads}
    \cup {[op |-> "fetch_current_weather", city |-> city, country |-> country,
           outcome |-> outcome] :
            city \in ClientCities, country \in ClientCountries,
            outcome \in Outcomes(CurrentPayloads)}
    \cup {[op |-> "fetch_forecast", city |-> city, country |-> country,
           days |-> days, outcome |-> outcome] :
            city \in ClientCities, country \in ClientCountries, days \in Days,
            outcome \in Outcomes(ForecastPayloads)}

InitClient ==
    /\ rows = <<>>
    /\ seq = 0
    /\ now = 0
    /\ ticks = 0
    /\ call \in ClientCalls
    /\ ret = Pending
    /\ before = <<>>

\* client._parse_weather_data(data)
ClientParseWeather ==
    /\ call.op = "parse_weather"
    /\ ret = Pending
    /\ ret' = ParseWeatherData(call.data, now)
    /\ UNCHANGED <<rows, seq, now, ticks, call, before>>

\* client._parse_forecast_data(data)
ClientParseForecast ==
    /\ call.op = "parse_forecast"
    /\ ret = Pending
    /\ ret' = ParseForecastData(call.data, now)
    /\ UNCHANGED <<rows, seq, now, ticks, call, before>>

\* client.fetch_current_weather(city, country_code)
ClientFetchCurrent ==
    /\ call.op = "fetch_current_weather"
    /\ ret = Pending
    /\ ret' = FetchCurrentWeather(call.city, call.country, call.outcome, now)
    /\ UNCHANGED <<rows, seq, now, ticks, call, before>>

\* client.fetch_forecast(city, country_code, days)
ClientFetchForecast ==
    /\ call.op = "fetch_forecast"
    /\ ret = Pending
    /\ ret' = FetchForecast(call.city, call.country, call.days, call.outcome, now)
    /\ UNCHANGED <<rows, seq, now, ticks, call, before>>

NextClient ==
    \/ ClientParseWeather
    \/ ClientParseForecast
    \/ ClientFetchCurrent
    \/ ClientFetchForecast

SpecClient == InitClient /\ [][NextClient]_vars

\* --------------------------------------------------------------- commands
\* bound on the rowids handed out while the commands run
MaxCliSeq == 2

\* the line the except clauses of a command print for an exception
ErrorLabel(exc) ==
    CASE exc = "APIError" -> "API Error"
      [] exc = "Timeout" -> "Request timed out"
      [] exc = "ConnectionError" -> "Network Error"
      [] exc = "ValueError" -> "Invalid Response"
      [] OTHER -> "Unexpected Error"

\* what a command shows and exits with when client.fetch_* raised r: the
\* error line, never a row, and exit code 1
FetchFailedMutant(rs, r) ==
    IF rs = <<>>
    THEN [exit |-> 1, shown |-> "error", label |-> ErrorLabel(r.exc), row |-> None]
    ELSE [exit |-> 0, shown |-> "cached", label |-> None, row |-> rs[1]]
FetchFailed(rs, r) ==
    [exit |-> 1, shown |-> "error", label |-> ErrorLabel(r.exc), row |-> None]

\* `if not no_cache:` the store is asked, and `if cached:` its row is shown
UseCacheMutant(no_cache, cached) == cached.hit
UseCache(no_cache, cached) == ~no_cache /\ cached.hit

\* the fetch command; key says whether OPENWEATHER_API_KEY is set, cached
\* is what get_cached_weather returns if it is asked
FetchCommand(rs, sq, city, country, no_cache, key, outcome, cached, t) ==
    IF UseCache(no_cache, cached)
    THEN [rows |-> rs, seq |-> sq, lookups |-> 1, requests |-> 0, saves |-> 0,
          raised |-> None,
          out |-> [exit |-> 0, shown |-> "cached", label |-> None, row |-> cached.row]]
    ELSE IF ~key
    THEN [rows |-> rs, seq |-> sq, lookups |-> IF no_cache THEN 0 ELSE 1,
          requests |-> 0, saves |-> 0, raised |-> "APIError",
          out |-> [exit |-> 1, shown |-> "error", label |-> ErrorLabel("APIError"),
                   row |-> None]]
    ELSE Only({
         IF ~r.ok
         THEN [rows |-> rs, seq |-> sq, lookups |-> IF no_cache THEN 0 ELSE 1,
               requests |-> 1, saves |-> 0, raised |-> r.exc,
               out |-> FetchFailed(rs, r)]
         ELSE Only({
              [rows |-> sv.rows, seq |-> sv.seq,
               lookups |-> IF no_cache THEN 0 ELSE 1, requests |-> 1,
               saves |-> 1, raised |-> sv.exc,
               out |-> IF sv.exc # None
                       THEN [exit |-> 1, shown |-> "error",
                             label |-> ErrorLabel(sv.exc), row |-> None]
                       ELSE [exit |-> 0, shown |-> "saved", label |-> None,
                             row |-> [r.w EXCEPT !.id = sv.id]]]
              : sv \in {SaveWeather(rs, sq, r.w)}})
         : r \in {FetchCurrentWeather(city, country, outcome, t)}})

RECURSIVE SaveAll(_, _, _)
\* for forecast_item in forecasts: forecast_item.id = db.save_weather(...);
\* every call commits, the first exception ends the loop
SaveAll(rs, sq, ws) ==
    IF ws = <<>> THEN [rows |-> rs, seq |-> sq, saves |-> 0, exc |-> None]
    ELSE Only({
         IF sv.exc # None
         THEN [rows |-> sv.rows, seq |-> sv.seq, saves |-> 1, exc |-> sv.exc]
         ELSE [SaveAll(sv.rows, sv.seq, Tail(ws)) EXCEPT !.saves = @ + 1]
         : sv \in {SaveWeather(rs, sq, Head(ws))}})

\* the forecast command
ForecastCommand(rs, sq, city, country, days, save, key, outcome, t) ==
    IF ~(1 <= days /\ days <= 5)
    THEN [rows |-> rs, seq |-> sq, requests |-> 0, saves |-> 0, raised |-> "Exit",
          out |-> [exit |-> 1, shown |-> "error",
                   label |-> "Days must be between 1 and 5", row |-> None]]
    ELSE IF ~key
    THEN [rows |-> rs, seq |-> sq, requests |-> 0, saves |-> 0, raised |-> "APIError",
          out |-> [exit |-> 1, shown |-> "error", label |-> ErrorLabel("APIError"),
                   row |-> None]]
    ELSE Only({
         IF ~r.ok
         THEN [rows |-> rs, seq |-> sq, requests |-> 1, saves |-> 0,
               raised |-> r.exc, out |-> FetchFailed(rs, r)]
         ELSE Only({
              [rows |-> sv.rows, seq |-> sv.seq, requests |-> 1,
               saves |-> sv.saves, raised |-> sv.exc,
               out |-> IF sv.exc # None
                       THEN [exit |-> 1, shown |-> "error",
                             label |-> ErrorLabel(sv.exc), row |-> None]
                       ELSE [exit |-> 0, shown |-> "forecast", label |-> None,
                             row |-> None]]
              : sv \in {IF save THEN SaveAll(rs, sq, r.ws)
                        ELSE [rows |-> rs, seq |-> sq, saves |-> 0, exc |-> None]}})
         : r \in {FetchForecast(city, country, days, outcome, t)}})

CliCities == {Lo}
CliCountries == {None, "GB"}
CliDays == {0, 3}

\* upstream behaviours the fetch command is run against: every failure of
\* the taxonomy, a body the store rejects, and complete bodies
CliCurrentOutcomes ==
    {Timeouts, ConnectionFails, RequestFails,
     Response(404, TRUE, ErrorBody), Response(401, TRUE, ErrorBody),
     Response(429, TRUE, ErrorBody), Response(500, FALSE, JNull),
     Response(200, FALSE, JNull),
     Response(200, TRUE, Drop(Base, {"wind"})),
     Response(200, TRUE, Put(Base, "sys", JDict([country |-> JNull]))),
     Response(200, TRUE, Current(Lo, "GB", 5)),
     Response(200, TRUE, Current(lo, "GB", 20))}

\* upstream behaviours the forecast command is run against
CliForecastOutcomes ==
    {Timeouts, Response(404, TRUE, ErrorBody),
     Response(200, TRUE, Forecast(<<Interval(5)>>)),
     Response(200, TRUE, Forecast(<<Interval(5), Interval(20)>>)),
     Response(200, TRUE, Forecast(<<Interval(5), Drop(Interval(5), {"wind"})>>)),
     Response(200, TRUE, Forecast(<<Drop(Interval(5), {"wind"})>>))}

\* weather-cli fetch CITY [--country C] [--no-cache]; a run without the API
\* key is tried against one upstream behaviour only, none being consulted
CmdFetch ==
    \E city \in CliCities, country \in CliCountries, no_cache \in BOOLEAN,
       key \in BOOLEAN, outcome \in CliCurrentOutcomes :
    /\ key \/ outcome = Timeouts
    /\ \E cached \in GetCachedWeather(rows, city, country, now) :
       \E r \in {FetchCommand(rows, seq, city, country, no_cache, key, outcome,
                              cached, now)} :
        /\ r.seq <= MaxCliSeq
        /\ rows' = r.rows
        /\ seq' = r.seq
        /\ call' = [op |-> "fetch", city |-> city, country |-> country,
                    no_cache |-> no_cache, key |-> key, outcome |-> outcome,
                    fresh |-> cached.hit]
        /\ ret' = [r EXCEPT !.rows = <<>>, !.seq = 0]
        /\ before' = rows
        /\ UNCHANGED <<now, ticks>>

\* weather-cli forecast CITY [--country C] [--days N] [--save/--no-save];
\* a run without the API key or with days out of range is tried against one
\* upstream behaviour only, none being consulted
CmdForecast ==
    \E city \in CliCities, country \in CliCountries, days \in CliDays,
       save \in BOOLEAN, key \in BOOLEAN, outcome \in CliForecastOutcomes :
    /\ (key /\ days \in 1..5) \/ outcome = Timeouts
    /\ \E r \in {ForecastCommand(rows, seq, city, country, days, save, key,
                                 outcome, now)} :
        /\ r.seq <= MaxCliSeq
        /\ rows' = r.rows
        /\ seq' = r.seq
        /\ call' = [op |-> "forecast", city |-> city, country |-> country,
                    days |-> days, save |-> save, key |-> key, outcome |-> outcome]
        /\ ret' = [r EXCEPT !.rows = <<>>, !.seq = 0]
        /\ before' = rows
        /\ UNCHANGED <<now, ticks>>

NextCli ==
    \/ Tick
    \/ CmdFetch
    \/ CmdForecast

SpecCli == Init /\ [][NextCli]_vars

\* ------------------------------------------------------- claims: the store
SameKey(a, b) == a.city = b.city /\ a.country = b.country

\* the rows of a table that carry the key of w
RowsOfKey(rs, w) == {i \in 1..Len(rs) : SameKey(rs[i], w)}

\* C1 (as claimed): get_cached_weather(city, country) called directly after
\* save_weather(o) with o's key returns o itself; and once 1800 seconds have
\* passed since the capture timestamp of the row stored for (city, country),
\* get_cached_weather(city, country) misses.
C1_FreshAfterUpsertThenMiss ==
    call.op = "get_cached_weather" =>
        /\ (call.afterSave /\ call.city = call.saved.city
                /\ call.country = call.saved.country)
              => (ret.hit /\ [ret.row EXCEPT !.id = NoneId] = call.saved)
        /\ (TruthyText(call.country)
                /\ \E i \in 1..Len(rows) :
                      /\ rows[i].city = call.city
                      /\ rows[i].country = call.country
                      /\ rows[i].timestamp + CACHE_DURATION <= now)
              => ~ret.hit

\* C2: the store holds exactly one row for every key ever written (no two
\* rows share a key, no operation removes a key), and after a successful
\* save_weather(w) the one row of w's key carries every field of w, the
\* capture timestamp included, the other rows being as they were.
C2_OneRowPerKeyLatestContent ==
    /\ \A i, j \in 1..Len(rows) : SameKey(rows[i], rows[j]) => i = j
    /\ \A i \in 1..Len(before) : RowsOfKey(rows, before[i]) # {}
    /\ (call.op = "save_weather" /\ ret.exc = None) =>
          /\ Cardinality(RowsOfKey(rows, call.w)) = 1
          /\ \A i \in RowsOfKey(rows, call.w) :
                [rows[i] EXCEPT !.id = NoneId] = call.w
          /\ Len(rows) = Len(before)
                + (IF RowsOfKey(before, call.w) = {} THEN 1 ELSE 0)
          /\ \A i \in 1..Len(before) :
                ~SameKey(before[i], call.w) => rows[i] = before[i]

\* C2 witness: a save_weather that repeats the stored content of its key at
\* a later time, in a store that holds another key as well
C2_Witness ==
    /\ call.op = "save_weather"
    /\ ret.exc = None
    /\ Len(rows) >= 2
    /\ \E i \in RowsOfKey(before, call.w) :
          /\ before[i].temperature = call.w.temperature
          /\ before[i].timestamp < call.w.timestamp

\* C6 (as claimed): when more than one stored row matches a
\* get_cached_weather request within the freshness window, the row returned
\* is a matching row with the greatest capture timestamp.
C6_MostRecentMatch ==
    (call.op = "get_cached_weather"
        /\ Cardinality(CachedMatches(rows, call.city, call.country, now)) > 1)
      => /\ ret.hit
         /\ \A i \in CachedMatches(rows, call.city, call.country, now) :
               ret.row.timestamp >= rows[i].timestamp

\* C7 (as claimed): the value save_weather(w) returns is the id of the row
\* stored for w's key, on insert and on replace: get_weather_by_id of it
\* finds a row with w's city and country.
C7_ReturnedIdentity ==
    (call.op = "save_weather" /\ ret.exc = None) =>
        LET found == GetWeatherById(rows, ret.id) IN
        /\ found.hit
        /\ found.row.city = call.w.city
        /\ found.row.country = call.w.country

\* a row satisfies the filters that were supplied to list_weather
SatisfiesFilters(row, c) ==
    /\ c.city # NoneCity => Like(<<"%">> \o c.city \o <<"%">>, row.city)
    /\ c.country # None => row.country = c.country
    /\ c.min_temp.some => row.temperature >= c.min_temp.v
    /\ c.max_temp.some => row.temperature <= c.max_temp.v

\* C5 (as claimed): list_weather(filters, limit = L) returns at most L rows
\* (no row at all when L is negative), every returned row satisfies every
\* supplied filter, and the capture timestamps of the returned rows never
\* increase.
C5_ListLimitedFilteredSorted ==
    call.op = "list_weather" =>
        /\ Len(ret.rows) <= (IF call.limit < 0 THEN 0 ELSE call.limit)
        /\ \A k \in 1..Len(ret.rows) : SatisfiesFilters(ret.rows[k], call)
        /\ \A a, b \in 1..Len(ret.rows) :
              a < b => ret.rows[a].timestamp >= ret.rows[b].timestamp

\* ------------------------------------------------------ claims: the client
Done == ret # Pending

\* sub occurs in msg as a run of consecutive elements
Contains(msg, sub) ==
    \E k \in 1..(Len(msg) - Len(sub) + 1) : SubSeq(msg, k, k + Len(sub) - 1) = sub

\* the failure kinds of the taxonomy, as the caller can tell them apart:
\* by the exception class and, among APIErrors, by the message
ReportedKind(r) ==
    CASE r.ok -> "Observation"
      [] r.exc = "Timeout" -> "Timeout"
      [] r.exc = "ConnectionError" -> "ConnectionFailure"
      [] r.exc = "ValueError" -> "MalformedPayload"
      [] r.exc = "APIError" /\ Contains(r.msg, <<"' not found.">>) -> "NotFound"
      [] r.exc = "APIError" /\ Contains(r.msg, <<"Invalid API key. ">>) -> "Unauthorized"
      [] r.exc = "APIError" /\ Contains(r.msg, <<"API rate limit exceeded. ">>) -> "RateLimited"
      [] r.exc = "APIError" /\ Contains(r.msg, <<"HTTP error ">>) -> "UpstreamError"
      [] OTHER -> "Other"

Is2xx(status) == 200 <= status /\ status < 300

\* C8 (as claimed): for fetch_current_weather and fetch_forecast the upstream
\* outcome determines the error kind: deadline exceeded gives Timeout naming
\* the 10 seconds, transport failure gives ConnectionFailure, 404 gives
\* NotFound naming the composed location, 401 Unauthorized, 429 RateLimited,
\* every other non-2xx status UpstreamError naming the status; and no
\* non-2xx response is decoded as a payload.
C8_OutcomeDeterminesKind ==
    (Done /\ call.op \in {"fetch_current_weather", "fetch_forecast"}) =>
        LET o == call.outcome IN
        /\ o.kind = "timeout" =>
              ReportedKind(ret) = "Timeout" /\ Contains(ret.msg, <<"10">>)
        /\ o.kind = "connection" => ReportedKind(ret) = "ConnectionFailure"
        /\ (o.kind = "response" /\ ~Is2xx(o.status)) =>
              /\ ~ret.decoded
              /\ o.status = 404 =>
                    /\ ReportedKind(ret) = "NotFound"
                    /\ Contains(ret.msg, Location(call.city, call.country))
              /\ o.status = 401 => ReportedKind(ret) = "Unauthorized"
              /\ o.status = 429 => ReportedKind(ret) = "RateLimited"
              /\ o.status \notin {404, 401, 429} =>
                    /\ ReportedKind(ret) = "UpstreamError"
                    /\ Contains(ret.msg, <<ToString(o.status)>>)

\* the current-weather body a call validates, if it validates one
ValidatedBody ==
    IF call.op = "parse_weather" THEN call.data
    ELSE IF call.op = "fetch_current_weather" /\ call.outcome.kind = "response"
            /\ call.outcome.status = 200 /\ call.outcome.json
    THEN call.outcome.data
    ELSE JNull

\* the required sections a mapping lacks
Lacking(data) == SectionNames \ DOMAIN data.d

\* C10: validating a body that is a mapping lacking at least one of the six
\* required sections fails with a ValueError whose message names a section
\* the body lacks (the one it lacks, when it lacks exactly one), whether the
\* validator is called directly or by fetch_current_weather.
C10_MissingSectionNamed ==
    (Done /\ ValidatedBody.t = "dict" /\ Lacking(ValidatedBody) # {}) =>
        /\ ~ret.ok
        /\ ret.exc = "ValueError"
        /\ \E f \in Lacking(ValidatedBody) :
              Contains(ret.msg, <<"Missing required field: ", f>>)

\* C10 witness: a body that lacks only its clouds section was rejected by
\* fetch_current_weather with a message naming clouds
C10_Witness ==
    /\ Done
    /\ call.op = "fetch_current_weather"
    /\ ValidatedBody.t = "dict"
    /\ Lacking(ValidatedBody) = {"clouds"}
    /\ ret.exc = "ValueError"
    /\ Contains(ret.msg, <<"Missing required field: ", "clouds">>)

\* an interval is well-formed: it has the five required fields, its metrics,
\* wind and clouds are mappings and its condition list starts with a
\* non-empty mapping
WellFormedInterval(item) ==
    /\ item.t = "dict"
    /\ {"dt", "main", "weather", "wind", "clouds"} \subseteq DOMAIN item.d
    /\ item.d["dt"].t = "num"
    /\ \A k \in {"main", "wind", "clouds"} : item.d[k].t = "dict"
    /\ item.d["weather"].t = "list"
    /\ item.d["weather"].l # <<>>
    /\ item.d["weather"].l[1].t = "dict"
    /\ DOMAIN item.d["weather"].l[1].d # {}

WellFormed(items) == SelectSeq(items, WellFormedInterval)

\* a forecast body with the interval list and the location descriptor
HasListAndCity(data) ==
    /\ data.t = "dict"
    /\ {"list", "city"} \subseteq DOMAIN data.d
    /\ data.d["list"].t = "list"
    /\ data.d["city"].t = "dict"

\* C4 (as claimed): for a forecast body with the interval list and the
\* location descriptor, of whose intervals K are well-formed: if K > 0 the
\* parse returns K observations, one per well-formed interval in upstream
\* order; if K = 0 it fails with a ValueError.
C4_ForecastKeepsWellFormed ==
    (Done /\ call.op = "parse_forecast" /\ HasListAndCity(call.data)) =>
        LET good == WellFormed(call.data.d["list"].l) IN
        IF Len(good) > 0
        THEN /\ ret.ok
             /\ Len(ret.ws) = Len(good)
             /\ \A k \in 1..Len(good) :
                   JNum(ret.ws[k].temperature) = good[k].d["main"].d["temp"]
        ELSE ~ret.ok /\ ret.exc = "ValueError"

\* a numeric leaf float() and int() accept
Coercible(x) == x.t = "num" \/ (x.t = "str" /\ x.s \in NumericStrings)

\* a current-weather body with the six required sections, each of the shape
\* upstream documents: a name, mappings with coercible leaves, and a
\* non-empty condition list whose first entry is a mapping
SixSections(data) ==
    /\ data.t = "dict"
    /\ SectionNames \subseteq DOMAIN data.d
    /\ data.d["name"].t = "str"
    /\ \A k \in {"sys", "main", "wind", "clouds"} :
          /\ data.d[k].t = "dict"
          /\ k # "sys" => \A f \in DOMAIN data.d[k].d : Coercible(data.d[k].d[f])
    /\ data.d["weather"].t = "list"
    /\ data.d["weather"].l # <<>>
    /\ data.d["weather"].l[1].t = "dict"

\* the description upstream sent in the first condition entry, "" when it
\* sent none
UpstreamDescription(data) ==
    LET entry == data.d["weather"].l[1].d IN
    IF "description" \in DOMAIN entry /\ entry["description"].t = "str"
    THEN entry["description"].s
    ELSE ""

\* C11 (as claimed): validating a current-weather body that has the six
\* required sections and a non-empty condition list succeeds; the
\* observation's description is the placeholder "No description" exactly
\* when the first condition entry's description is absent or empty, and is
\* the upstream description otherwise; so it is never empty.
C11_DescriptionDefaulted ==
    (Done /\ SixSections(ValidatedBody)) =>
        /\ ret.ok
        /\ ret.w.description =
              IF UpstreamDescription(ValidatedBody) = "" THEN "No description"
              ELSE UpstreamDescription(ValidatedBody)
        /\ ret.w.description # ""

\* the message of a body that could not be decoded as JSON
InvalidEncoding == <<"Invalid JSON response: ">>

\* C12 (as claimed): a ValueError raised by fetch_current_weather or
\* fetch_forecast tells its two causes apart by the message: a body that is
\* not JSON is reported with the invalid-JSON message, a decoded body that
\* fails validation is reported as a missing or invalid field and never
\* with the invalid-JSON message.
C12_CausesDistinguished ==
    (Done /\ call.op \in {"fetch_current_weather", "fetch_forecast"}
          /\ ~ret.ok /\ ret.exc = "ValueError") =>
        /\ ~call.outcome.json => Contains(ret.msg, InvalidEncoding)
        /\ call.outcome.json => ~Contains(ret.msg, InvalidEncoding)

\* C13: for every days in 1..5 fetch_forecast asks upstream for
\* cnt = min(days * 8, 40) intervals, which is 8 * days, lies in 8..40, and
\* is 24 for days = 3.
C13_IntervalCount ==
    (Done /\ call.op = "fetch_forecast" /\ call.days \in 1..5) =>
        /\ ret.cnt = 8 * call.days
        /\ ret.cnt \in 8..40
        /\ call.days = 3 => ret.cnt = 24

\* C13 witness: a fetch_forecast call with days = 3 was made and asked for
\* 24 intervals
C13_Witness ==
    /\ Done
    /\ call.op = "fetch_forecast"
    /\ call.days = 3
    /\ ret.cnt = 24

\* the decoded body handed to _parse_weather_data, and whether one was
ValidatesOne ==
    \/ call.op = "parse_weather"
    \/ /\ call.op = "fetch_current_weather"
       /\ call.outcome.kind = "response"
       /\ ~RaiseForStatus(call.outcome.status)
       /\ call.outcome.json

\* C15 (as claimed): validating one decoded body ends in a canonical
\* observation or in a ValueError, whatever the body: a leaf that cannot be
\* coerced, a section that is not a mapping and a condition list that is
\* empty or not a list all give ValueError, never another exception.
C15_ObservationOrMalformed ==
    (Done /\ ValidatesOne) => (ret.ok \/ ret.exc = "ValueError")

\* C16 (as claimed): every observation the validators produce has a country
\* that is not None: when upstream omits the country or sends null it is
\* "Unknown", so the key handed to save_weather is two strings.
C16_CountryNeverNone ==
    (Done /\ call.op \in {"parse_weather", "fetch_current_weather"} /\ ret.ok) =>
        /\ ret.w.country # None
        /\ ret.w.city # NoneCity

\* ---------------------------------------------------- claims: the commands
\* C9: when the one request of a fetch command fails, with any failure of
\* the taxonomy, the command ends after that single request: it shows the
\* error and no row, exits with code 1, and leaves the store as it was.
C9_FailureSurfacedOnce ==
    (call.op = "fetch" /\ ret.requests > 0 /\ ret.saves = 0 /\ ret.raised # None) =>
        /\ ret.requests = 1
        /\ ret.out.shown = "error"
        /\ ret.out.row = None
        /\ ret.out.exit = 1
        /\ rows = before

\* C9 witness: a fetch whose request timed out while the store held a row
\* that matched the request
C9_Witness ==
    /\ call.op = "fetch"
    /\ call.outcome = Timeouts
    /\ ret.requests = 1
    /\ ret.raised = "Timeout"
    /\ \E i \in 1..Len(rows) : Like(call.city, rows[i].city)

\* the forecast body a forecast command received and was asked to save
SavedForecastBody ==
    IF call.op = "forecast" /\ call.save /\ call.key /\ call.days \in 1..5
       /\ call.outcome.kind = "response" /\ call.outcome.status = 200
       /\ call.outcome.json /\ HasListAndCity(call.outcome.data)
    THEN call.outcome.data.d["list"].l
    ELSE <<>>

\* C3 (as claimed): when the forecast command saves a fetched forecast whose
\* K well-formed intervals share one (city, country), the store gains K new
\* rows and every row it held before is unchanged.
C3_ForecastRowsAppended ==
    Len(WellFormed(SavedForecastBody)) > 0 =>
        /\ Len(rows) = Len(before) + Len(WellFormed(SavedForecastBody))
        /\ SubSeq(rows, 1, Len(before)) = before

\* the upstream answer of the last fetch command is a complete observation
Fetched ==
    /\ call.outcome.kind = "response"
    /\ call.outcome.status = 200
    /\ call.outcome.json
    /\ SixSections(call.outcome.data)

\* the order of a fetch command: with caching on and a fresh row in the
\* store, one lookup, no request and no write; otherwise one request, and
\* one save_weather of the fetched observation exactly when the request
\* gave one
CacheBeforeNetwork ==
    /\ ret.lookups = (IF call.no_cache THEN 0 ELSE 1)
    /\ (~call.no_cache /\ call.fresh) =>
          /\ ret.requests = 0
          /\ ret.saves = 0
          /\ rows = before
    /\ (call.no_cache \/ ~call.fresh) =>
          /\ ret.requests = 1
          /\ ret.saves = (IF Fetched THEN 1 ELSE 0)
          /\ (Fetched /\ ret.raised = None) =>
                \E i \in 1..Len(rows) :
                    /\ rows[i].city = call.outcome.data.d["name"].s
                    /\ rows[i].timestamp = now
                    /\ rows[i].temperature = call.outcome.data.d["main"].d["temp"].n
          /\ ~Fetched => rows = before

====
